---- MODULE Spec2Model ----
(***************************************************************************)
(* Model of the Attestation Service broker of kbs                          *)
(* (kbs/src/api/src/attestation/mod.rs): the Attest trait, the             *)
(* AttestationService enum, create_client, verify and set_policy.          *)
(*                                                                         *)
(* Each caller slot r runs one async call at a time.  A call has two       *)
(* suspension points: `self.create_client().await` and the delegated       *)
(* `client.verify(..).await` / `client.set_policy(..).await`.  A future    *)
(* can be dropped (cancelled) at either of them.                           *)
(*                                                                         *)
(* anyhow::Result is modelled as [tag, val]: Ok carries the value (a token *)
(* as a sequence of strings, or <<>> for unit), Err carries the context    *)
(* chain, outermost context first.                                         *)
(***************************************************************************)
EXTENDS Naturals, Sequences, FiniteSets

\* Number of concurrent caller slots.
NumReq == 2

Req == 1 .. NumReq

\* Identities (addresses) a boxed client can have; 0 is "no client".
InstanceIds == 1 .. NumReq

VARIABLES
    config,        \* the AttestationService value: [variant, cfg]
    backend,       \* state external to the broker: [available, policy]
    pc,            \* per slot: position of the call
    call,          \* per slot: [op, args] of the current call
    clientRes,     \* per slot: what create_client() returned to this call
    client,        \* per slot: the boxed client held in `client`, 0 if none
    live,          \* boxed clients that exist (constructed, not dropped)
    delegatedArgs, \* per slot: arguments the client's method received
    backendRet,    \* per slot: what the client's method returned
    result,        \* per slot: what the broker call returned
    nCreate,       \* per slot: create_client() invocations in this call
    nDelegate      \* per slot: client method invocations in this call

vars == <<config, backend, pc, call, clientRes, client, live, delegatedArgs,
          backendRet, result, nCreate, nDelegate>>

----------------------------------------------------------------------------
\* anyhow::Result

Ok(v) == [tag |-> "Ok", val |-> v]

Err(chain) == [tag |-> "Err", val |-> chain]

NoResult == [tag |-> "None", val |-> <<>>]

\* The context string of lines 102 and 110.
InitMsg == "attestation service client initialization failed."

\* Mutant: the context is lost.
Context_dropped(res, msg) == res

\* anyhow::Context::context: an Ok passes, an Err gets msg as outer context.
Context(res, msg) ==
    IF res.tag = "Err" THEN Err(<<msg>> \o res.val) ELSE res

\* Mutant: the failure is swallowed and the call goes on.
Try_never(res) == FALSE

\* The `?` operator: TRUE when the function returns early with the error.
Try(res) == res.tag = "Err"

----------------------------------------------------------------------------
\* Inputs

Variants == {"CoCoASBuiltIn", "CoCoASgRPC", "IntelTA"}

ConfigOf(variant) ==
    CASE variant = "CoCoASBuiltIn" -> "AsConfig"
      [] variant = "CoCoASgRPC"    -> "GrpcConfig"
      [] variant = "IntelTA"       -> "IntelTrustAuthorityConfig"

\* (tee, nonce, attestation, request_id)
VerifyInputs ==
    { <<"Sample", "nonce-1", "valid-evidence",   "req-1">>,
      <<"Sample", "nonce-1", "corrupt-evidence", "req-2">>,
      <<"Tdx",    "nonce-2", "valid-evidence",   "req-3">> }

Policies == {"allow-all", "deny-all"}

PolicyInputs == {"deny-all", "not-a-policy"}

BackendStates == [available : BOOLEAN, policy : Policies]

----------------------------------------------------------------------------
\* The backends (coco::builtin::Native, coco::grpc::Grpc,
\* intel_trust_authority::IntelTrustAuthority)

NewError(variant) ==
    CASE variant = "CoCoASBuiltIn" -> "Native::new failed"
      [] variant = "CoCoASgRPC"    -> "Grpc::new failed"
      [] variant = "IntelTA"       -> "IntelTrustAuthority::new failed"

\* Constructor of the backend: fails when the endpoint or the local
\* resource it needs is not available.
BackendNew(variant, be) ==
    IF be.available THEN Ok(<<>>) ELSE Err(<<NewError(variant)>>)

\* The TEE kind a piece of evidence describes.
TeeOf(evidence) ==
    IF evidence = "valid-evidence" THEN "Sample" ELSE "none"

\* verify of a backend: a function of its inputs and the backend state.
BackendVerify(variant, be, tee, nonce, evidence, request_id) ==
    IF ~be.available THEN Err(<<"backend unreachable">>)
    ELSE IF TeeOf(evidence) = "none" THEN Err(<<"malformed evidence">>)
    ELSE IF TeeOf(evidence) # tee THEN Err(<<"tee mismatch">>)
    ELSE IF be.policy = "deny-all" THEN Err(<<"policy denied">>)
    ELSE Ok(<<"token", variant, tee, nonce, evidence, request_id>>)

\* Backends that implement set_policy themselves.
OverridesSetPolicy(variant) == variant \in {"CoCoASBuiltIn", "CoCoASgRPC"}

\* set_policy of a backend that implements it.
BackendSetPolicy(variant, be, input) ==
    IF ~be.available THEN Err(<<"backend unreachable">>)
    ELSE IF input \in Policies THEN Ok(<<>>)
    ELSE Err(<<"policy rejected">>)

\* The policy of the backend after set_policy.
BackendPolicyAfter(variant, be, input) ==
    IF OverridesSetPolicy(variant) /\ be.available /\ input \in Policies
    THEN input ELSE be.policy

----------------------------------------------------------------------------
\* trait Attest

\* Mutant: absence of support is reported as success.
Attest_set_policy_silent(input) == Ok(<<>>)

\* Attest::set_policy, the default body.
Attest_set_policy(input) == Err(<<"Set Policy API is unimplemented">>)

\* Dynamic dispatch of client.set_policy(input) on Box<dyn Attest>.
dyn_set_policy(variant, be, input) ==
    IF OverridesSetPolicy(variant)
    THEN BackendSetPolicy(variant, be, input)
    ELSE Attest_set_policy(input)

\* Dynamic dispatch of client.verify(..) on Box<dyn Attest>.
dyn_verify(variant, be, args) ==
    BackendVerify(variant, be, args[1], args[2], args[3], args[4])

----------------------------------------------------------------------------
\* impl AttestationService

\* AttestationService::new
new(variant) == [variant |-> variant, cfg |-> ConfigOf(variant)]

\* Some call on this broker has returned an error and is still visible.
SomeFailed == \E q \in Req : pc[q] = "returned" /\ result[q].tag = "Err"

\* Mutant: the broker remembers a failure and refuses to construct again.
create_client_sticky(cfg, be) ==
    IF SomeFailed THEN Err(<<"broker is in failed state">>)
    ELSE BackendNew(cfg.variant, be)

\* AttestationService::create_client: the constructor's error is
\* propagated by `?` as it is.
create_client(cfg, be) ==
    CASE cfg.variant = "CoCoASBuiltIn" -> BackendNew("CoCoASBuiltIn", be)
      [] cfg.variant = "CoCoASgRPC"    -> BackendNew("CoCoASgRPC", be)
      [] cfg.variant = "IntelTA"       -> BackendNew("IntelTA", be)

Free(l) == InstanceIds \ l

\* Mutant: the same cached client is handed out to every call.
Box_new_cached(l) ==
    CHOOSE i \in InstanceIds : \A j \in InstanceIds : i <= j

\* Box::new: a client at an address no existing client has.
Box_new(l) ==
    IF Free(l) = {} THEN 0
    ELSE CHOOSE i \in Free(l) : \A j \in Free(l) : i <= j

\* Mutant: dropping one client tears down every client.
Drop_all(l, id) == {}

\* Drop of the boxed client at the end of its scope.
Drop(l, id) == l \ {id}

\* Mutant: nonce and attestation are passed in the wrong order.
verify_args_swapped(tee, nonce, attestation, request_id) ==
    <<tee, attestation, nonce, request_id>>

\* Arguments of client.verify(tee, nonce, attestation, request_id).
verify_args(tee, nonce, attestation, request_id) ==
    <<tee, nonce, attestation, request_id>>

\* The tail expression of verify: the client's result is the result.
verify_return(res) == res

\* Arguments of client.set_policy(input).
set_policy_args(input) == <<input>>

\* Mutant: the backend's error is tagged as an initialization failure.
set_policy_return_tagged(res) == Context(res, InitMsg)

\* The tail expression of set_policy.
set_policy_return(res) == res

----------------------------------------------------------------------------
Idle(r) == pc[r] \in {"idle", "returned", "cancelled"}

InFlight(r) == pc[r] \in {"create_client", "delegated"}

Start(r, op, args) ==
    /\ Idle(r)
    /\ pc' = [pc EXCEPT ![r] = "create_client"]
    /\ call' = [call EXCEPT ![r] = [op |-> op, args |-> args]]
    /\ clientRes' = [clientRes EXCEPT ![r] = NoResult]
    /\ delegatedArgs' = [delegatedArgs EXCEPT ![r] = <<>>]
    /\ backendRet' = [backendRet EXCEPT ![r] = NoResult]
    /\ result' = [result EXCEPT ![r] = NoResult]
    /\ nCreate' = [nCreate EXCEPT ![r] = 1]
    /\ nDelegate' = [nDelegate EXCEPT ![r] = 0]
    /\ UNCHANGED <<config, backend, client, live>>

\* verify is called and runs up to `self.create_client().await`.
verify_call(r) ==
    \E in \in VerifyInputs : Start(r, "verify", in)

\* set_policy is called and runs up to `self.create_client().await`.
set_policy_call(r) ==
    \E input \in PolicyInputs : Start(r, "set_policy", <<input>>)

\* create_client() completes; `.context(..)?` returns early on failure,
\* otherwise the client is bound and its method is invoked with args.
Created(r, args) ==
    LET res == create_client(config, backend)
        wrapped == Context(res, InitMsg)
        id == Box_new(live)
    IN /\ clientRes' = [clientRes EXCEPT ![r] = res]
       /\ IF Try(wrapped)
          THEN /\ pc' = [pc EXCEPT ![r] = "returned"]
               /\ result' = [result EXCEPT ![r] = wrapped]
               /\ UNCHANGED <<client, live, delegatedArgs, nDelegate>>
          ELSE /\ pc' = [pc EXCEPT ![r] = "delegated"]
               /\ client' = [client EXCEPT ![r] = IF res.tag = "Ok" THEN id ELSE 0]
               /\ live' = IF res.tag = "Ok" THEN live \cup {id} ELSE live
               /\ delegatedArgs' = [delegatedArgs EXCEPT ![r] = args]
               /\ nDelegate' = [nDelegate EXCEPT ![r] = @ + 1]
               /\ UNCHANGED result
       /\ UNCHANGED <<config, backend, call, backendRet, nCreate>>

verify_created(r) ==
    /\ pc[r] = "create_client"
    /\ call[r].op = "verify"
    /\ Created(r, verify_args(call[r].args[1], call[r].args[2],
                              call[r].args[3], call[r].args[4]))

set_policy_created(r) ==
    /\ pc[r] = "create_client"
    /\ call[r].op = "set_policy"
    /\ Created(r, set_policy_args(call[r].args[1]))

\* client.verify(..) completes; its result is returned, the client dropped.
verify_returned(r) ==
    /\ pc[r] = "delegated"
    /\ call[r].op = "verify"
    /\ LET res == dyn_verify(config.variant, backend, delegatedArgs[r])
       IN /\ backendRet' = [backendRet EXCEPT ![r] = res]
          /\ result' = [result EXCEPT ![r] = verify_return(res)]
    /\ pc' = [pc EXCEPT ![r] = "returned"]
    /\ live' = Drop(live, client[r])
    /\ client' = [client EXCEPT ![r] = 0]
    /\ UNCHANGED <<config, backend, call, clientRes, delegatedArgs,
                   nCreate, nDelegate>>

\* client.set_policy(input) completes; a backend that implements it may
\* have changed its policy.
set_policy_returned(r) ==
    /\ pc[r] = "delegated"
    /\ call[r].op = "set_policy"
    /\ LET res == dyn_set_policy(config.variant, backend, delegatedArgs[r][1])
           pol == BackendPolicyAfter(config.variant, backend, delegatedArgs[r][1])
       IN /\ backendRet' = [backendRet EXCEPT ![r] = res]
          /\ result' = [result EXCEPT ![r] = set_policy_return(res)]
          /\ backend' = [backend EXCEPT !.policy = pol]
    /\ pc' = [pc EXCEPT ![r] = "returned"]
    /\ live' = Drop(live, client[r])
    /\ client' = [client EXCEPT ![r] = 0]
    /\ UNCHANGED <<config, call, clientRes, delegatedArgs, nCreate, nDelegate>>

\* The caller drops the future at a suspension point; the client, if one
\* was constructed, is dropped with it.
cancel(r) ==
    /\ InFlight(r)
    /\ pc' = [pc EXCEPT ![r] = "cancelled"]
    /\ live' = IF client[r] # 0 THEN Drop(live, client[r]) ELSE live
    /\ client' = [client EXCEPT ![r] = 0]
    /\ call' = [call EXCEPT ![r] = [op |-> "none", args |-> <<>>]]
    /\ clientRes' = [clientRes EXCEPT ![r] = NoResult]
    /\ delegatedArgs' = [delegatedArgs EXCEPT ![r] = <<>>]
    /\ nCreate' = [nCreate EXCEPT ![r] = 0]
    /\ nDelegate' = [nDelegate EXCEPT ![r] = 0]
    /\ UNCHANGED <<config, backend, backendRet, result>>

\* The state external to the broker changes: the endpoint becomes
\* (un)reachable, or the policy is changed out of band.
env_change ==
    /\ \E b \in BackendStates : b # backend /\ backend' = b
    /\ UNCHANGED <<config, pc, call, clientRes, client, live, delegatedArgs,
                   backendRet, result, nCreate, nDelegate>>

Init ==
    /\ config \in {new(v) : v \in Variants}
    /\ backend = [available |-> TRUE, policy |-> "allow-all"]
    /\ pc = [r \in Req |-> "idle"]
    /\ call = [r \in Req |-> [op |-> "none", args |-> <<>>]]
    /\ clientRes = [r \in Req |-> NoResult]
    /\ client = [r \in Req |-> 0]
    /\ live = {}
    /\ delegatedArgs = [r \in Req |-> <<>>]
    /\ backendRet = [r \in Req |-> NoResult]
    /\ result = [r \in Req |-> NoResult]
    /\ nCreate = [r \in Req |-> 0]
    /\ nDelegate = [r \in Req |-> 0]

Next ==
    \/ \E r \in Req : verify_call(r)
    \/ \E r \in Req : set_policy_call(r)
    \/ \E r \in Req : verify_created(r)
    \/ \E r \in Req : set_policy_created(r)
    \/ \E r \in Req : verify_returned(r)
    \/ \E r \in Req : set_policy_returned(r)
    \/ \E r \in Req : cancel(r)
    \/ env_change

Spec == Init /\ [][Next]_vars

\* The same program against a backend whose external state is fixed: any
\* state to begin with, no change out of band, and no set_policy that
\* changes the policy.
InitFixed ==
    /\ config \in {new(v) : v \in Variants}
    /\ backend \in BackendStates
    /\ pc = [r \in Req |-> "idle"]
    /\ call = [r \in Req |-> [op |-> "none", args |-> <<>>]]
    /\ clientRes = [r \in Req |-> NoResult]
    /\ client = [r \in Req |-> 0]
    /\ live = {}
    /\ delegatedArgs = [r \in Req |-> <<>>]
    /\ backendRet = [r \in Req |-> NoResult]
    /\ result = [r \in Req |-> NoResult]
    /\ nCreate = [r \in Req |-> 0]
    /\ nDelegate = [r \in Req |-> 0]

NextFixed ==
    \/ \E r \in Req : verify_call(r)
    \/ \E r \in Req : set_policy_call(r)
    \/ \E r \in Req : verify_created(r)
    \/ \E r \in Req : set_policy_created(r)
    \/ \E r \in Req : verify_returned(r)
    \/ \E r \in Req : set_policy_returned(r) /\ backend' = backend
    \/ \E r \in Req : cancel(r)

SpecFixed == InitFixed /\ [][NextFixed]_vars

----------------------------------------------------------------------------
\* Properties

\* The error carries the initialization context somewhere in its chain.
HasInitContext(res) ==
    res.tag = "Err" /\ \E i \in DOMAIN res.val : res.val[i] = InitMsg

Unimplemented == Err(<<"Set Policy API is unimplemented">>)

Returned(r, op) == pc[r] = "returned" /\ call[r].op = op

\* C1: in verify and in set_policy, when create_client() fails the call
\* returns an error whose outermost context is the initialization message,
\* the backend's method is not invoked in that call, and the call does not
\* return Ok.
C1_InitFailureIsReturned ==
    \A r \in Req :
        clientRes[r].tag = "Err" =>
            /\ pc[r] = "returned"
            /\ result[r].tag = "Err"
            /\ Len(result[r].val) > 0
            /\ Head(result[r].val) = InitMsg
            /\ nDelegate[r] = 0
            /\ delegatedArgs[r] = <<>>
            /\ backendRet[r] = NoResult

C1_Witness ==
    \E r1, r2 \in Req :
        /\ Returned(r1, "verify") /\ clientRes[r1].tag = "Err"
        /\ Returned(r2, "set_policy") /\ clientRes[r2].tag = "Err"

\* C2: when create_client() succeeds in verify, the client's verify gets
\* exactly the caller's (tee, nonce, evidence, request_id) in that order and
\* the call returns what the client returned: its token on Ok, its own
\* error on Err, with no initialization context.
C2_VerifyPassesThrough ==
    \A r \in Req :
        (call[r].op = "verify" /\ clientRes[r].tag = "Ok") =>
            /\ pc[r] \in {"delegated", "returned"}
            /\ delegatedArgs[r] = call[r].args
            /\ pc[r] = "returned" =>
                  /\ backendRet[r] # NoResult
                  /\ result[r] = backendRet[r]
                  /\ ~HasInitContext(result[r])

C2_Witness ==
    \E r1, r2 \in Req :
        /\ Returned(r1, "verify") /\ result[r1].tag = "Ok"
        /\ result[r1].val = <<"token", config.variant>> \o call[r1].args
        /\ Returned(r2, "verify") /\ clientRes[r2].tag = "Ok"
        /\ result[r2].tag = "Err"

\* C3: on a backend that uses the default set_policy of the trait, a
\* set_policy call whose client was constructed returns the unimplemented
\* error whatever the input bytes are, and never Ok.
C3_DefaultSetPolicyUnimplemented ==
    \A r \in Req :
        ( /\ Returned(r, "set_policy")
          /\ clientRes[r].tag = "Ok"
          /\ ~OverridesSetPolicy(config.variant) ) =>
            /\ result[r] = Unimplemented
            /\ result[r].tag # "Ok"

C3_Witness ==
    \E r1, r2 \in Req :
        /\ Returned(r1, "set_policy") /\ Returned(r2, "set_policy")
        /\ call[r1].args # call[r2].args
        /\ result[r1] = Unimplemented /\ result[r2] = Unimplemented

\* C4: set_policy constructs a client, and when that succeeds it passes the
\* caller's input bytes unmodified and returns the client's result
\* unchanged; the returned error carries the initialization context exactly
\* when construction failed.
C4_SetPolicyShape ==
    \A r \in Req :
        call[r].op = "set_policy" =>
            /\ nCreate[r] = 1
            /\ clientRes[r].tag = "Ok" =>
                  /\ pc[r] \in {"delegated", "returned"}
                  /\ delegatedArgs[r] = call[r].args
                  /\ pc[r] = "returned" =>
                        /\ backendRet[r] # NoResult
                        /\ result[r] = backendRet[r]
            /\ pc[r] = "returned" =>
                  (HasInitContext(result[r]) <=> clientRes[r].tag = "Err")

C4_Witness ==
    \E r1, r2 \in Req :
        /\ Returned(r1, "set_policy") /\ result[r1] = Ok(<<>>)
        /\ Returned(r2, "set_policy") /\ clientRes[r2].tag = "Ok"
        /\ result[r2].tag = "Err"

\* C5 as stated: every error create_client() itself returns carries the
\* initialization context.
C5_CreateClientWraps ==
    \A r \in Req : clientRes[r].tag = "Err" => HasInitContext(clientRes[r])

\* C5 amended: create_client() returns the constructor's error without the
\* initialization context; verify and set_policy add it, so the error such
\* a call returns is the initialization message put in front of
\* create_client()'s error.
C5_EntryPointsWrap ==
    \A r \in Req :
        clientRes[r].tag = "Err" =>
            /\ ~HasInitContext(clientRes[r])
            /\ Len(clientRes[r].val) = 1
            /\ pc[r] = "returned" => result[r] = Err(<<InitMsg>> \o clientRes[r].val)

C5_Witness ==
    \E r \in Req :
        /\ pc[r] = "returned"
        /\ clientRes[r].tag = "Err"
        /\ result[r].val = <<InitMsg, NewError(config.variant)>>

\* C6: one attempt per call: create_client() is invoked exactly once, the
\* client's method at most once and exactly once when construction
\* succeeded, and a failure of either is what the call returns.
C6_SingleAttempt ==
    \A r \in Req :
        /\ pc[r] \in {"create_client", "delegated", "returned"} => nCreate[r] = 1
        /\ nDelegate[r] <= 1
        /\ pc[r] = "create_client" => nDelegate[r] = 0
        /\ pc[r] = "delegated" => nDelegate[r] = 1 /\ clientRes[r].tag = "Ok"
        /\ pc[r] = "returned" =>
              /\ nDelegate[r] = 1 <=> clientRes[r].tag = "Ok"
              /\ clientRes[r].tag = "Err" => result[r].tag = "Err"
              /\ backendRet[r].tag = "Err" => result[r] = backendRet[r]

C6_Witness ==
    \E r1, r2 \in Req :
        /\ pc[r1] = "returned" /\ clientRes[r1].tag = "Err" /\ nDelegate[r1] = 0
        /\ pc[r2] = "returned" /\ backendRet[r2].tag = "Err" /\ nDelegate[r2] = 1

\* C7: no step changes the broker's configuration, and whenever a call's
\* create_client() completes the call goes on to delegate if the backend
\* can be constructed at that moment and returns the initialization error
\* if not, whatever earlier calls on the broker did.
C7_NoFailedState ==
    [][ /\ config' = config
        /\ \A r \in Req :
              (pc[r] = "create_client" /\ pc'[r] \notin {"create_client", "cancelled"}) =>
                  IF backend.available
                  THEN pc'[r] = "delegated" /\ client'[r] # 0
                  ELSE pc'[r] = "returned" /\ HasInitContext(result'[r]) ]_vars

C7_Witness ==
    \E r1, r2 \in Req :
        /\ r1 # r2
        /\ pc[r1] = "returned" /\ HasInitContext(result[r1])
        /\ pc[r2] = "delegated" /\ client[r2] # 0
        /\ config = new(config.variant)

\* C8: the clients that exist are exactly those held by calls that are
\* delegating, each held by one call only; when no call is in flight no
\* client exists.
C8_NoSharedInstance ==
    /\ \A r \in Req : client[r] # 0 <=> pc[r] = "delegated"
    /\ live = {client[r] : r \in {q \in Req : client[q] # 0}}
    /\ \A r1, r2 \in Req : (r1 # r2 /\ client[r1] # 0) => client[r1] # client[r2]
    /\ (\A r \in Req : ~InFlight(r)) => live = {}

C8_Witness ==
    \E r1, r2 \in Req :
        /\ r1 # r2
        /\ pc[r1] = "delegated" /\ pc[r2] = "delegated"
        /\ client[r1] # client[r2]

\* C9: a step that cancels a call at either suspension point leaves the
\* configuration and every other call as they are, the other calls' clients
\* included; and a call that completes while another one is cancelled
\* returns the result of its own delegated call on its own arguments.
C9_CancelIsolated ==
    [][ \A r \in Req :
          /\ (InFlight(r) /\ pc'[r] = "cancelled") =>
                /\ config' = config
                /\ \A q \in Req \ {r} :
                      /\ pc'[q] = pc[q] /\ call'[q] = call[q]
                      /\ client'[q] = client[q] /\ result'[q] = result[q]
                      /\ client[q] # 0 => client'[q] \in live'
          /\ ( /\ pc[r] = "delegated" /\ pc'[r] = "returned"
               /\ \E q \in Req : pc[q] = "cancelled" ) =>
                /\ delegatedArgs[r] = call[r].args
                /\ result'[r] = backendRet'[r]
                /\ client[r] \in live ]_vars

C9_Witness ==
    \E r1, r2 \in Req :
        /\ pc[r1] = "cancelled"
        /\ pc[r2] = "returned" /\ result[r2].tag = "Ok"

====
